---------------------------- MODULE Spec2Model ----------------------------
(***************************************************************************)
(* Per-frame scheduling and buffer life cycle of the Rockchip ISP1         *)
(* pipeline handler (src/libcamera/pipeline/rkisp1/rkisp1.cpp).            *)
(*                                                                         *)
(* The state is the state of PipelineHandlerRkISP1 and RkISP1CameraData,   *)
(* together with the collaborators the handler talks to: the three video   *)
(* devices (buffers in kernel custody), the IPA (replies in flight), the   *)
(* Timeline (pending frame actions), the Requests and the Camera state     *)
(* machine that decides which facade call the application may make.        *)
(***************************************************************************)
EXTENDS Integers, Sequences, FiniteSets, TLC

VARIABLES
    camState,        \* Camera state machine: "Configured", "Prepared", "Running"
    paramBuffers_,   \* PipelineHandlerRkISP1::paramBuffers_ (free queue)
    statBuffers_,    \* PipelineHandlerRkISP1::statBuffers_ (free queue)
    ipaBuffers_,     \* RkISP1CameraData::ipaBuffers_ (ids mapped in the IPA)
    frameInfo_,      \* RkISP1Frames::frameInfo_ : frame -> RkISP1FrameInfo
    frame_,          \* RkISP1CameraData::frame_
    activeCamera_,   \* PipelineHandlerRkISP1::activeCamera_ (TRUE = set)
    actions_,        \* Timeline: pending frame actions, in due order
    streaming,       \* video devices that are streaming
    kernel,          \* buffers in kernel custody, per device, in queueing order
    videoSeq,        \* sequence number the capture device gives the next frame
    ipaMsgs,         \* IPA replies in flight towards queueFrameAction
    pending_,        \* Requests that report pending output buffers
    queuedRequests_, \* CameraData::queuedRequests_
    completed,       \* per Request: number of completeRequest calls
    bufDone,         \* per Request: number of completeBuffer calls
    nreq,            \* number of Requests handed to queueRequest so far
    gen,             \* number of allocateBuffers calls that succeeded
    starts,          \* number of start calls
    sessionBase,     \* first Request id of the current streaming session
    afterStop,       \* TRUE from the return of stop until the next start call
    jumped,          \* since start, an image sequence number moved frame_ forward
    hist,            \* per Request: what has happened to it so far
    fault,           \* "none", or the fatal condition the process died of
    ev,              \* what the last step did
    config_          \* RkISP1CameraConfiguration::config_, the stream configurations

vars == <<camState, paramBuffers_, statBuffers_, ipaBuffers_, frameInfo_, frame_,
          activeCamera_, actions_, streaming, kernel, videoSeq, ipaMsgs, pending_,
          queuedRequests_, completed, bufDone, nreq, gen, starts, sessionBase,
          afterStop, jumped, hist, fault, ev, config_>>

---------------------------------------------------------------------------
(* Program constants *)

RKISP1_PARAM_BASE == 256

RKISP1_STAT_BASE == 512

RKISP1_BUFFER_COUNT == 4

(* Bounds of the model *)

MaxRequests == 3

MaxStarts == 2

MaxAllocs == 1

MaxSkip == 1

MaxInFlight == 2

\* number of bits of an unsigned int in the model (32 in the program)
UIntBits == 4

\* stream configurations an application adds to one configuration, at most
MaxConfigs == 2

---------------------------------------------------------------------------
(* Values *)

Devices == {"param", "stat", "video"}

\* stream->configuration().bufferCount, set by validate()
bufferCount == RKISP1_BUFFER_COUNT

\* the pools hold bufferCount + 1 buffers each
poolSize == bufferCount + 1

\* Request ids: enough for the bounded runs and for a burst that drains a pool
Requests == 0 .. (IF MaxRequests > poolSize THEN MaxRequests ELSE poolSize + 1) - 1

\* A Buffer object: the pool it belongs to, the allocation that made it and
\* its index().  A Request's image buffer is identified with the Request.
Buffer(role, g, i) == [role |-> role, gen |-> g, index |-> i]

\* a | b on unsigned int, bit by bit
RECURSIVE BitOr(_, _)
BitOr(a, b) ==
    IF a = 0 THEN b
    ELSE IF b = 0 THEN a
    ELSE (IF a % 2 = 1 \/ b % 2 = 1 THEN 1 ELSE 0) + 2 * BitOr(a \div 2, b \div 2)

NoTry == [called |-> FALSE, request |-> -1, hadInfo |-> FALSE, pend |-> FALSE,
          meta |-> FALSE, pdeq |-> FALSE, done |-> FALSE]

\* calls: the calls the step made on the IPA, the video devices and the timeline,
\* in the order it made them
NoEv == [op |-> "init", ok |-> TRUE, try |-> NoTry, sent |-> {}, ran |-> <<>>,
         calls |-> <<>>]

Event(op, ok, try, sent, ran) ==
    [op |-> op, ok |-> ok, try |-> try, sent |-> sent, ran |-> ran, calls |-> <<>>]

\* the event e of a step that made the calls cs
withCalls(e, cs) == [e EXCEPT !.calls = cs]

\* unsigned int arithmetic: n modulo 2^UIntBits
UInt(n) == n % (2 ^ UIntBits)

Min(S) == CHOOSE k \in S : \A j \in S : k <= j

\* The elements of a sequence
Range(s) == {s[i] : i \in 1 .. Len(s)}

---------------------------------------------------------------------------
(* RkISP1Frames *)

\* find(unsigned int frame): the entry exists
findFrame(fi, frame) == frame \in DOMAIN fi

\* find(Buffer *): key of the first entry, in key order, that holds the buffer; -1 if none
findBuffer(fi, buffer) ==
    LET hit == {k \in DOMAIN fi : \/ fi[k].paramBuffer = buffer
                                  \/ fi[k].statBuffer = buffer
                                  \/ fi[k].videoBuffer = buffer}
    IN IF hit = {} THEN -1 ELSE Min(hit)

\* find(Request *): key of the first entry, in key order, of the request; -1 if none
findRequest(fi, request) ==
    LET hit == {k \in DOMAIN fi : fi[k].request = request}
    IN IF hit = {} THEN -1 ELSE Min(hit)

\* create() fails: nullptr
createFails(hasBuffer) ==
    \/ paramBuffers_ = <<>>
    \/ statBuffers_ = <<>>
    \/ ~hasBuffer

\* newInfo with paramDequeued left true
newInfoDirty(frame, request) ==
    [frame |-> frame, request |-> request,
     paramBuffer |-> Head(paramBuffers_),
     statBuffer |-> Head(statBuffers_),
     videoBuffer |-> Buffer("video", 0, request),
     paramFilled |-> FALSE, paramDequeued |-> TRUE, metadataProcessed |-> FALSE]

\* the RkISP1FrameInfo create() builds
newInfo(frame, request) ==
    [frame |-> frame, request |-> request,
     paramBuffer |-> Head(paramBuffers_),
     statBuffer |-> Head(statBuffers_),
     videoBuffer |-> Buffer("video", 0, request),
     paramFilled |-> FALSE, paramDequeued |-> FALSE, metadataProcessed |-> FALSE]

\* frameInfo_[frame] = info
insert(fi, frame, info) ==
    [k \in (DOMAIN fi) \cup {frame} |-> IF k = frame THEN info ELSE fi[k]]

\* frameInfo_.erase(frame)
erase(fi, frame) == [k \in (DOMAIN fi) \ {frame} |-> fi[k]]

\* create that pops the parameters queue only
createKeepsStat(frame, request) ==
    /\ paramBuffers_' = Tail(paramBuffers_)
    /\ statBuffers_' = statBuffers_
    /\ frameInfo_' = insert(frameInfo_, frame, newInfo(frame, request))

\* create(frame, request, stream), when it succeeds
create(frame, request) ==
    /\ paramBuffers_' = Tail(paramBuffers_)
    /\ statBuffers_' = Tail(statBuffers_)
    /\ frameInfo_' = insert(frameInfo_, frame, newInfo(frame, request))

\* destroy that returns the buffers and leaves the entry in the table
destroyKeepsEntry(fi, frame) ==
    IF ~findFrame(fi, frame)
    THEN /\ frameInfo_' = fi
         /\ UNCHANGED <<paramBuffers_, statBuffers_>>
    ELSE /\ paramBuffers_' = Append(paramBuffers_, fi[frame].paramBuffer)
         /\ statBuffers_' = Append(statBuffers_, fi[frame].statBuffer)
         /\ frameInfo_' = fi

\* destroy(frame) on the table fi
destroy(fi, frame) ==
    IF ~findFrame(fi, frame)
    THEN /\ frameInfo_' = fi
         /\ UNCHANGED <<paramBuffers_, statBuffers_>>
    ELSE /\ paramBuffers_' = Append(paramBuffers_, fi[frame].paramBuffer)
         /\ statBuffers_' = Append(statBuffers_, fi[frame].statBuffer)
         /\ frameInfo_' = erase(fi, fi[frame].frame)


---------------------------------------------------------------------------
(* Timeline and frame actions *)

\* Timeline::scheduleAction, action not yet due: the pending list stays in
\* frame order, actions of one frame in the order they were scheduled
schedule(as, a) ==
    LET before == SelectSeq(as, LAMBDA x : x.frame <= a.frame)
        after == SelectSeq(as, LAMBDA x : x.frame > a.frame)
    IN before \o <<a>> \o after

\* V4L2VideoDevice::queueBuffer
queueBuffer(kern, dev, buffer) == [kern EXCEPT ![dev] = Append(@, buffer)]

\* the history h with tags added to Request r
noted(h, r, tags) == [h EXCEPT ![r] = @ \cup tags]

\* the history after the action a ran on the table fi and made the calls cs
ranNoted(fi, a, cs, h) ==
    IF a.type # "QueueBuffers" \/ ~findFrame(fi, a.frame)
    THEN h
    ELSE noted(h, fi[a.frame].request,
               {"fired"} \cup (IF \E i \in 1 .. Len(cs) : cs[i].dev = "param"
                               THEN {"paramQ"} ELSE {}))

\* RkISP1ActionQueueBuffers::run hits LOG(Fatal) "Frame not known"
runIsFatal(fi, a) == a.type = "QueueBuffers" /\ ~findFrame(fi, a.frame)

\* a call on the IPA, on the timeline or on a video device, and its argument
Call(dev, arg) == [dev |-> dev, arg |-> arg]

\* run that queues the image buffer first
runCallsImageFirst(fi, a) ==
    IF a.type # "QueueBuffers" \/ ~findFrame(fi, a.frame)
    THEN <<>>
    ELSE LET info == fi[a.frame]
         IN <<Call("video", info.videoBuffer)>>
            \o (IF info.paramFilled THEN <<Call("param", info.paramBuffer)>> ELSE <<>>)
            \o <<Call("stat", info.statBuffer)>>

\* run that queues the parameters buffer whether it was filled or not
runCallsAlwaysParam(fi, a) ==
    IF a.type # "QueueBuffers" \/ ~findFrame(fi, a.frame)
    THEN <<>>
    ELSE LET info == fi[a.frame]
         IN <<Call("param", info.paramBuffer), Call("stat", info.statBuffer),
              Call("video", info.videoBuffer)>>

\* RkISP1ActionQueueBuffers::run / RkISP1ActionSetSensor::run on the table fi: the
\* queueBuffer calls it makes, in order
runCalls(fi, a) ==
    IF a.type # "QueueBuffers" \/ ~findFrame(fi, a.frame)
    THEN <<>>
    ELSE LET info == fi[a.frame]
         IN (IF info.paramFilled THEN <<Call("param", info.paramBuffer)>> ELSE <<>>)
            \o <<Call("stat", info.statBuffer), Call("video", info.videoBuffer)>>

\* the buffers in kernel custody after the queueBuffer calls cs
RECURSIVE queueAll(_, _)
queueAll(kern, cs) ==
    IF cs = <<>>
    THEN kern
    ELSE queueAll(queueBuffer(kern, Head(cs).dev, Head(cs).arg), Tail(cs))

\* the buffers in kernel custody after the action a ran on the table fi
run(fi, a, kern) == queueAll(kern, runCalls(fi, a))

---------------------------------------------------------------------------
(* IPA: the replies an event makes the IPA send, each delivered later *)

Msg(op, frame) == [op |-> op, frame |-> frame]

\* IPAInterface::configure: the IPA sets the initial sensor controls
ipaConfigure == {Msg("V4L2_SET", 0)}

\* IPAInterface::processEvent
ipaProcessEvent(e) ==
    IF e.op = "QUEUE_REQUEST"
    THEN {Msg("PARAM_FILLED", e.frame)}
    ELSE {Msg("METADATA", e.frame)}

---------------------------------------------------------------------------
(* Requests and the PipelineHandler base class *)

\* PipelineHandler::queueRequest
baseQueueRequest(request) ==
    queuedRequests_' = queuedRequests_ \cup {request}

\* PipelineHandler::completeRequest
completeRequest(request) ==
    /\ completed' = [completed EXCEPT ![request] = @ + 1]
    /\ queuedRequests_' = queuedRequests_ \ {request}

---------------------------------------------------------------------------
(* PipelineHandlerRkISP1: buffer handling *)

\* what tryCompleteRequest(request) finds at the time of the call
tryRecord(fi, request, pend) ==
    LET k == findRequest(fi, request)
    IN [called |-> TRUE, request |-> request, hadInfo |-> k # -1,
        pend |-> request \in pend,
        meta |-> k # -1 /\ fi[k].metadataProcessed,
        pdeq |-> k # -1 /\ fi[k].paramDequeued,
        done |-> completed'[request] # completed[request]]

\* tryCompleteRequest without the paramDequeued test
tryCompleteRequestNoParam(fi, request, pend) ==
    LET k == findRequest(fi, request)
    IN IF \/ k = -1
          \/ request \in pend
          \/ ~fi[k].metadataProcessed
       THEN /\ frameInfo_' = fi
            /\ UNCHANGED <<paramBuffers_, statBuffers_, completed, queuedRequests_>>
       ELSE /\ completeRequest(request)
            /\ destroy(fi, fi[k].frame)

\* tryCompleteRequest(request) on the table fi, pend the Requests with pending buffers
tryCompleteRequest(fi, request, pend) ==
    LET k == findRequest(fi, request)
    IN IF \/ k = -1
          \/ request \in pend
          \/ ~fi[k].metadataProcessed
          \/ ~fi[k].paramDequeued
       THEN /\ frameInfo_' = fi
            /\ UNCHANGED <<paramBuffers_, statBuffers_, completed, queuedRequests_>>
       ELSE /\ completeRequest(request)
            /\ destroy(fi, fi[k].frame)


\* the table with one flag of the entry under key k set
setFlag(fi, k, flag) ==
    [fi EXCEPT ![k] = [@ EXCEPT ![flag] = TRUE]]

\* metadataReady that records the metadata and does not try to complete the Request
metadataReadyNoTry(frame) ==
    IF ~findFrame(frameInfo_, frame)
    THEN /\ UNCHANGED <<frameInfo_, paramBuffers_, statBuffers_, completed,
                        queuedRequests_, hist, fault>>
         /\ ev' = Event("METADATA", FALSE, NoTry, {}, <<>>)
    ELSE LET fi == setFlag(frameInfo_, frame, "metadataProcessed")
             request == fi[frame].request
         IN /\ hist' = noted(hist, request, {"meta"})
            /\ frameInfo_' = fi
            /\ UNCHANGED <<paramBuffers_, statBuffers_, completed, queuedRequests_,
                           fault>>
            /\ ev' = Event("METADATA", TRUE,
                           [tryRecord(fi, request, pending_) EXCEPT !.done = FALSE],
                           {}, <<>>)

\* RkISP1CameraData::metadataReady(frame, metadata)
metadataReady(frame) ==
    IF ~findFrame(frameInfo_, frame)
    THEN /\ UNCHANGED <<frameInfo_, paramBuffers_, statBuffers_, completed,
                        queuedRequests_, hist, fault>>
         /\ ev' = Event("METADATA", FALSE, NoTry, {}, <<>>)
    ELSE LET fi == setFlag(frameInfo_, frame, "metadataProcessed")
             request == fi[frame].request
         IN /\ hist' = noted(hist, request, {"meta"})
            /\ IF ~activeCamera_
               THEN \* tryCompleteRequest: cameraData(activeCamera_) of a null camera
                    /\ frameInfo_' = fi
                    /\ fault' = "nullptr"
                    /\ UNCHANGED <<paramBuffers_, statBuffers_, completed,
                                   queuedRequests_>>
                    /\ ev' = Event("METADATA", TRUE, NoTry, {}, <<>>)
               ELSE /\ tryCompleteRequest(fi, request, pending_)
                    /\ UNCHANGED fault
                    /\ ev' = Event("METADATA", TRUE,
                                   tryRecord(fi, request, pending_), {}, <<>>)

\* RkISP1CameraData::queueFrameAction(frame, action)
queueFrameAction(m, late) ==
    CASE m.op = "V4L2_SET" ->
            LET a == [frame |-> m.frame, type |-> "SetSensor"]
            IN /\ actions_' = IF late THEN actions_ ELSE schedule(actions_, a)
               /\ ev' = Event("V4L2_SET", TRUE, NoTry, {},
                              IF late THEN <<a>> ELSE <<>>)
               /\ UNCHANGED <<frameInfo_, paramBuffers_, statBuffers_, completed,
                              queuedRequests_, hist, fault>>
      [] m.op = "PARAM_FILLED" ->
            /\ frameInfo_' = IF findFrame(frameInfo_, m.frame)
                             THEN setFlag(frameInfo_, m.frame, "paramFilled")
                             ELSE frameInfo_
            /\ ev' = Event("PARAM_FILLED", findFrame(frameInfo_, m.frame), NoTry,
                           {}, <<>>)
            /\ UNCHANGED <<actions_, paramBuffers_, statBuffers_, completed,
                           queuedRequests_, hist, fault>>
      [] m.op = "METADATA" ->
            /\ metadataReady(m.frame)
            /\ UNCHANGED actions_

\* bufferReady that completes the buffer and does not try to complete the Request
bufferReadyNoTry(buffer, sequence) ==
    IF ~activeCamera_
    THEN /\ fault' = "assert"
         /\ ev' = Event("bufferReady", FALSE, NoTry, {}, <<>>)
         /\ UNCHANGED <<frame_, pending_, bufDone, frameInfo_, paramBuffers_,
                        statBuffers_, completed, queuedRequests_, hist>>
    ELSE LET request == buffer.index
         IN /\ frame_' = IF frame_ <= sequence THEN UInt(sequence + 1) ELSE frame_
            /\ pending_' = pending_ \ {request}
            /\ bufDone' = [bufDone EXCEPT ![request] = @ + 1]
            /\ hist' = noted(hist, request, {"videoRet"})
            /\ ev' = Event("bufferReady", TRUE, NoTry, {}, <<>>)
            /\ UNCHANGED <<frameInfo_, paramBuffers_, statBuffers_, completed,
                           queuedRequests_, fault>>

\* PipelineHandlerRkISP1::bufferReady(buffer), sequence the buffer's sequence()
bufferReady(buffer, sequence) ==
    IF ~activeCamera_
    THEN /\ fault' = "assert"
         /\ ev' = Event("bufferReady", FALSE, NoTry, {}, <<>>)
         /\ UNCHANGED <<frame_, pending_, bufDone, frameInfo_, paramBuffers_,
                        statBuffers_, completed, queuedRequests_, hist>>
    ELSE LET request == buffer.index
             pend == pending_ \ {request}
         IN /\ frame_' = IF frame_ <= sequence THEN UInt(sequence + 1) ELSE frame_
            /\ pending_' = pend
            /\ bufDone' = [bufDone EXCEPT ![request] = @ + 1]
            /\ hist' = noted(hist, request, {"videoRet"})
            /\ tryCompleteRequest(frameInfo_, request, pend)
            /\ ev' = Event("bufferReady", TRUE,
                           tryRecord(frameInfo_, request, pend), {}, <<>>)
            /\ UNCHANGED fault

\* PipelineHandlerRkISP1::paramReady(buffer)
paramReady(buffer) ==
    LET k == findBuffer(frameInfo_, buffer)
    IN IF ~activeCamera_ \/ k = -1
       THEN \* ASSERT(activeCamera_), or info->paramDequeued on a null info
            /\ fault' = IF ~activeCamera_ THEN "assert" ELSE "nullptr"
            /\ ev' = Event("paramReady", FALSE, NoTry, {}, <<>>)
            /\ UNCHANGED <<frameInfo_, paramBuffers_, statBuffers_, completed,
                           queuedRequests_, hist>>
       ELSE LET fi == setFlag(frameInfo_, k, "paramDequeued")
                request == fi[k].request
            IN /\ tryCompleteRequest(fi, request, pending_)
               /\ hist' = noted(hist, request, {"paramRet"})
               /\ ev' = Event("paramReady", TRUE,
                              tryRecord(fi, request, pending_), {}, <<>>)
               /\ UNCHANGED fault

\* statReady that reports the frame counter, not the frame of the FrameInfo
statReadyCurrentFrame(buffer) ==
    LET k == findBuffer(frameInfo_, buffer)
    IN IF ~activeCamera_
       THEN /\ fault' = "assert"
            /\ ev' = Event("statReady", FALSE, NoTry, {}, <<>>)
            /\ UNCHANGED <<ipaMsgs, hist>>
       ELSE IF k = -1
       THEN /\ ev' = Event("statReady", FALSE, NoTry, {}, <<>>)
            /\ UNCHANGED <<ipaMsgs, hist, fault>>
       ELSE LET op == [op |-> "SIGNAL_STAT_BUFFER", frame |-> frame_,
                       id |-> BitOr(RKISP1_STAT_BASE, frameInfo_[k].statBuffer.index)]
            IN /\ ipaMsgs' = ipaMsgs \cup ipaProcessEvent(op)
               /\ hist' = noted(hist, frameInfo_[k].request, {"statRet"})
               /\ ev' = Event("statReady", TRUE, NoTry, {op}, <<>>)
               /\ UNCHANGED fault

\* PipelineHandlerRkISP1::statReady(buffer)
statReady(buffer) ==
    LET k == findBuffer(frameInfo_, buffer)
    IN IF ~activeCamera_
       THEN /\ fault' = "assert"
            /\ ev' = Event("statReady", FALSE, NoTry, {}, <<>>)
            /\ UNCHANGED <<ipaMsgs, hist>>
       ELSE IF k = -1
       THEN /\ ev' = Event("statReady", FALSE, NoTry, {}, <<>>)
            /\ UNCHANGED <<ipaMsgs, hist, fault>>
       ELSE LET op == [op |-> "SIGNAL_STAT_BUFFER", frame |-> frameInfo_[k].frame,
                       id |-> BitOr(RKISP1_STAT_BASE, frameInfo_[k].statBuffer.index)]
            IN /\ ipaMsgs' = ipaMsgs \cup ipaProcessEvent(op)
               /\ hist' = noted(hist, frameInfo_[k].request, {"statRet"})
               /\ ev' = Event("statReady", TRUE, NoTry, {op}, <<>>)
               /\ UNCHANGED fault


---------------------------------------------------------------------------
(* PipelineHandlerRkISP1: pipeline operations *)

NoKernel == [d \in Devices |-> <<>>]

\* freshQueue without the spare buffer
freshQueueNoSpare(role, g, count) == [i \in 1 .. count |-> Buffer(role, g, i - 1)]

\* the free queue allocateBuffers fills for a pool: new Buffer(i), i = 0 .. bufferCount
freshQueue(role, g, count) == [i \in 1 .. (count + 1) |-> Buffer(role, g, i - 1)]

\* freshIds with the statistics buffers under the base of the parameters buffers
freshIdsOneBase(count) ==
    [i \in 1 .. (count + 1) |-> BitOr(RKISP1_PARAM_BASE, i - 1)]
    \o [i \in 1 .. (count + 1) |-> BitOr(RKISP1_PARAM_BASE, i - 1)]

\* the ids allocateBuffers registers with the IPA, count the bufferCount
freshIds(count) ==
    [i \in 1 .. (count + 1) |-> BitOr(RKISP1_PARAM_BASE, i - 1)]
    \o [i \in 1 .. (count + 1) |-> BitOr(RKISP1_STAT_BASE, i - 1)]

\* the calls allocateBuffers makes on the video devices, the free queues and the
\* IPA, in order; fail names the device whose exportBuffers fails
allocateCalls(fail) ==
    <<Call("video", "exportBuffers")>>
    \o (IF fail = "video" THEN <<>>
        ELSE <<Call("param", "exportBuffers")>>
             \o (IF fail = "param" THEN <<Call("video", "releaseBuffers")>>
                 ELSE <<Call("stat", "exportBuffers")>>
                      \o (IF fail = "stat"
                          THEN <<Call("param", "releaseBuffers"),
                                 Call("video", "releaseBuffers")>>
                          ELSE <<Call("param", "push"), Call("stat", "push"),
                                 Call("ipa", "mapBuffers")>>)))

\* PipelineHandlerRkISP1::allocateBuffers; fail names the exportBuffers call that
\* fails, count is the stream configuration's bufferCount
allocateBuffers(fail, count) ==
    /\ fault = "none"
    /\ camState = "Configured"
    /\ gen < MaxAllocs
    /\ IF fail # "none"
       THEN UNCHANGED <<camState, paramBuffers_, statBuffers_, ipaBuffers_, gen>>
       ELSE /\ paramBuffers_' = paramBuffers_ \o freshQueue("param", gen + 1, count)
            /\ statBuffers_' = statBuffers_ \o freshQueue("stat", gen + 1, count)
            /\ ipaBuffers_' = ipaBuffers_ \o freshIds(count)
            /\ gen' = gen + 1
            /\ camState' = "Prepared"
    /\ ev' = withCalls(Event("allocateBuffers", fail = "none", NoTry, {}, <<>>),
                       allocateCalls(fail))
    /\ UNCHANGED <<frameInfo_, frame_, activeCamera_, actions_, streaming, kernel,
                   videoSeq, ipaMsgs, pending_, queuedRequests_, completed, bufDone,
                   nreq, starts, sessionBase, afterStop, jumped, hist, fault,
                   config_>>

\* the calls freeBuffers makes on the free queues, the IPA and the video devices,
\* in order
freeCalls ==
    <<Call("stat", "delete"), Call("param", "delete"), Call("ipa", "unmapBuffers"),
      Call("param", "releaseBuffers"), Call("stat", "releaseBuffers"),
      Call("video", "releaseBuffers")>>

\* PipelineHandlerRkISP1::freeBuffers
freeBuffers ==
    /\ fault = "none"
    /\ camState = "Prepared"
    /\ paramBuffers_' = <<>>
    /\ statBuffers_' = <<>>
    /\ ipaBuffers_' = <<>>
    /\ kernel' = NoKernel
    /\ camState' = "Configured"
    /\ ev' = withCalls(Event("freeBuffers", TRUE, NoTry, {}, <<>>), freeCalls)
    /\ UNCHANGED <<frameInfo_, frame_, activeCamera_, actions_, streaming, videoSeq,
                   ipaMsgs, pending_, queuedRequests_, completed, bufDone, nreq, gen,
                   starts, sessionBase, afterStop, jumped, hist, fault, config_>>

\* the calls start makes on the video devices and on the IPA, in order; fail names
\* the call that fails
startCalls(fail) ==
    <<Call("param", "streamOn")>>
    \o (IF fail = "param" THEN <<>> ELSE
        <<Call("stat", "streamOn")>>
        \o (IF fail = "stat" THEN <<Call("param", "streamOff")>> ELSE
            <<Call("video", "streamOn")>>
            \o (IF fail = "video"
                THEN <<Call("param", "streamOff"), Call("stat", "streamOff")>>
                ELSE <<>>)
            \o <<Call("ipa", IF fail = "ipa" THEN "configure: error" ELSE "configure")>>))

\* PipelineHandlerRkISP1::start; fail names the streamOn call that fails, or the
\* IPA, whose configure then fails and sends no reply
start(fail) ==
    /\ fault = "none"
    /\ camState = "Prepared"
    /\ starts < MaxStarts
    /\ starts' = starts + 1
    /\ afterStop' = FALSE
    /\ jumped' = FALSE
    /\ sessionBase' = nreq
    /\ frame_' = 0
    /\ IF fail \in {"param", "stat"}
       THEN UNCHANGED <<camState, activeCamera_, streaming, videoSeq, ipaMsgs>>
       ELSE /\ activeCamera_' = TRUE
            /\ ipaMsgs' = IF fail = "ipa" THEN ipaMsgs ELSE ipaMsgs \cup ipaConfigure
            /\ IF fail = "video"
               THEN UNCHANGED <<camState, streaming, videoSeq>>
               ELSE /\ streaming' = Devices
                    /\ videoSeq' = 0
                    /\ camState' = "Running"
    /\ ev' = withCalls(Event("start", fail \in {"none", "ipa"}, NoTry, {}, <<>>),
                       startCalls(fail))
    /\ UNCHANGED <<paramBuffers_, statBuffers_, ipaBuffers_, frameInfo_, actions_,
                   kernel, pending_, queuedRequests_, completed, bufDone, nreq, gen,
                   hist, fault, config_>>

\* the calls stop makes on the video devices and on the timeline, in order
stopCalls ==
    <<Call("video", "streamOff"), Call("stat", "streamOff"),
      Call("param", "streamOff"), Call("timeline", "reset")>>

\* stop that returns at the first streamOff that fails
stopReturnsOnFailure(fails) ==
    LET made == IF "video" \in fails THEN 1
                ELSE IF "stat" \in fails THEN 2
                ELSE IF "param" \in fails THEN 3 ELSE 4
        off == {stopCalls[i].dev : i \in 1 .. made} \ fails
    IN /\ fault = "none"
       /\ camState = "Running"
       /\ streaming' = streaming \ off
       /\ kernel' = [d \in Devices |-> IF d \in off THEN <<>> ELSE kernel[d]]
       /\ actions_' = IF made = 4 THEN <<>> ELSE actions_
       /\ activeCamera_' = IF made = 4 THEN FALSE ELSE activeCamera_
       /\ afterStop' = TRUE
       /\ camState' = "Prepared"
       /\ ev' = withCalls(Event("stop", TRUE, NoTry, {}, <<>>),
                          SubSeq(stopCalls, 1, made))
       /\ UNCHANGED <<paramBuffers_, statBuffers_, ipaBuffers_, frameInfo_, frame_,
                      videoSeq, ipaMsgs, pending_, queuedRequests_, completed,
                      bufDone, nreq, gen, starts, sessionBase, jumped, hist, fault,
                      config_>>

\* PipelineHandlerRkISP1::stop; fails: the devices whose streamOff fails, which go
\* on streaming and keep their buffers
stop(fails) ==
    /\ fault = "none"
    /\ camState = "Running"
    /\ streaming' = streaming \cap fails
    /\ kernel' = [d \in Devices |-> IF d \in fails THEN kernel[d] ELSE <<>>]
    /\ actions_' = <<>>
    /\ activeCamera_' = FALSE
    /\ afterStop' = TRUE
    /\ camState' = "Prepared"
    /\ ev' = withCalls(Event("stop", TRUE, NoTry, {}, <<>>), stopCalls)
    /\ UNCHANGED <<paramBuffers_, statBuffers_, ipaBuffers_, frameInfo_, frame_,
                   videoSeq, ipaMsgs, pending_, queuedRequests_, completed, bufDone,
                   nreq, gen, starts, sessionBase, jumped, hist, fault, config_>>

\* Requests of the current session that hold a FrameInfo
inFlight == {k \in DOMAIN frameInfo_ : frameInfo_[k].request >= sessionBase}

\* queueRequest that schedules the action before it tells the IPA
queueRequestCallsActionFirst(fi, op, a, late) ==
    <<Call("timeline", a)>> \o (IF late THEN runCalls(fi, a) ELSE <<>>)
    \o <<Call("ipa", op)>>

\* the calls queueRequest makes once the FrameInfo exists: processEvent, then
\* scheduleAction, which runs the action at once when it is already due
queueRequestCalls(fi, op, a, late) ==
    <<Call("ipa", op), Call("timeline", a)>>
    \o (IF late THEN runCalls(fi, a) ELSE <<>>)

\* PipelineHandlerRkISP1::queueRequest(camera, request); hasBuffer: the Request has
\* a buffer for the stream; late: the QueueBuffers action is already due
queueRequest(hasBuffer, late) ==
    LET request == nreq
        a == [frame |-> frame_, type |-> "QueueBuffers"]
        op == [op |-> "QUEUE_REQUEST", frame |-> frame_,
               id |-> BitOr(RKISP1_PARAM_BASE, Head(paramBuffers_).index)]
    IN /\ fault = "none"
       /\ camState = "Running"
       /\ nreq' = nreq + 1
       /\ pending_' = IF hasBuffer THEN pending_ \cup {request} ELSE pending_
       /\ baseQueueRequest(request)
       /\ IF createFails(hasBuffer)
          THEN /\ ev' = Event("queueRequest", FALSE, NoTry, {}, <<>>)
               /\ UNCHANGED <<paramBuffers_, statBuffers_, frameInfo_, frame_,
                              actions_, kernel, ipaMsgs, hist, fault>>
          ELSE /\ create(frame_, request)
               /\ ipaMsgs' = ipaMsgs \cup ipaProcessEvent(op)
               /\ IF late
                  THEN /\ kernel' = run(frameInfo_', a, kernel)
                       /\ hist' = ranNoted(frameInfo_', a, runCalls(frameInfo_', a),
                                            noted(hist, request, {"ipaQ"}))
                       /\ UNCHANGED actions_
                  ELSE /\ actions_' = schedule(actions_, a)
                       /\ hist' = noted(hist, request, {"ipaQ"})
                       /\ UNCHANGED kernel
               /\ frame_' = UInt(frame_ + 1)
               /\ ev' = withCalls(Event("queueRequest", TRUE, NoTry, {op},
                                        IF late THEN <<a>> ELSE <<>>),
                                  queueRequestCalls(frameInfo_', op, a, late))
               /\ UNCHANGED fault
       /\ UNCHANGED <<camState, ipaBuffers_, activeCamera_, streaming, videoSeq,
                      completed, bufDone, gen, starts, sessionBase, afterStop, jumped,
                      config_>>

---------------------------------------------------------------------------
(* Events from the timer, the video devices and the IPA *)

\* Timeline::timeout: the first pending action is due and runs
timeout ==
    /\ fault = "none"
    /\ actions_ # <<>>
    /\ actions_' = Tail(actions_)
    /\ IF runIsFatal(frameInfo_, Head(actions_))
       THEN fault' = "fatal" /\ UNCHANGED <<kernel, hist>>
       ELSE /\ kernel' = run(frameInfo_, Head(actions_), kernel)
            /\ hist' = ranNoted(frameInfo_, Head(actions_),
                                 runCalls(frameInfo_, Head(actions_)), hist)
            /\ UNCHANGED fault
    /\ ev' = withCalls(Event("timeout", TRUE, NoTry, {}, <<Head(actions_)>>),
                       runCalls(frameInfo_, Head(actions_)))
    /\ UNCHANGED <<camState, paramBuffers_, statBuffers_, ipaBuffers_, frameInfo_,
                   frame_, activeCamera_, streaming, videoSeq, ipaMsgs, pending_,
                   queuedRequests_, completed, bufDone, nreq, gen, starts,
                   sessionBase, afterStop, jumped, config_>>

\* the capture device returns its oldest buffer, after dropping skip frames
videoReturn(skip) ==
    /\ fault = "none"
    /\ "video" \in streaming
    /\ kernel["video"] # <<>>
    /\ kernel' = [kernel EXCEPT !["video"] = Tail(@)]
    /\ videoSeq' = UInt(videoSeq + skip + 1)
    /\ bufferReady(Head(kernel["video"]), UInt(videoSeq + skip))
    /\ jumped' = (jumped \/ frame_' # frame_)
    /\ UNCHANGED <<camState, ipaBuffers_, activeCamera_, actions_, streaming,
                   ipaMsgs, nreq, gen, starts, sessionBase, afterStop, config_>>

\* the parameters device returns its oldest buffer
paramReturn ==
    /\ fault = "none"
    /\ "param" \in streaming
    /\ kernel["param"] # <<>>
    /\ kernel' = [kernel EXCEPT !["param"] = Tail(@)]
    /\ paramReady(Head(kernel["param"]))
    /\ UNCHANGED <<camState, ipaBuffers_, frame_, activeCamera_, actions_, streaming,
                   videoSeq, ipaMsgs, pending_, bufDone, nreq, gen, starts,
                   sessionBase, afterStop, jumped, config_>>

\* the statistics device returns its oldest buffer
statReturn ==
    /\ fault = "none"
    /\ "stat" \in streaming
    /\ kernel["stat"] # <<>>
    /\ kernel' = [kernel EXCEPT !["stat"] = Tail(@)]
    /\ statReady(Head(kernel["stat"]))
    /\ UNCHANGED <<camState, paramBuffers_, statBuffers_, ipaBuffers_, frameInfo_,
                   frame_, activeCamera_, actions_, streaming, videoSeq, pending_,
                   queuedRequests_, completed, bufDone, nreq, gen, starts,
                   sessionBase, afterStop, jumped, config_>>

\* the IPA's reply m reaches queueFrameAction; late: a SetSensor action would be due
ipaDeliver(m, late) ==
    /\ fault = "none"
    /\ m \in ipaMsgs
    /\ late => m.op = "V4L2_SET"
    /\ ipaMsgs' = ipaMsgs \ {m}
    /\ queueFrameAction(m, late)
    /\ UNCHANGED <<camState, ipaBuffers_, frame_, activeCamera_, streaming, kernel,
                   videoSeq, pending_, bufDone, nreq, gen, starts, sessionBase,
                   afterStop, jumped, config_>>

---------------------------------------------------------------------------
(* RkISP1CameraConfiguration *)

\* the pixel formats validate accepts
formats == {"YUYV", "YVYU", "VYUY", "NV16", "NV61", "NV21", "NV12", "GREY"}

\* a StreamConfiguration
StreamConfiguration(pixelFormat, width, height, count) ==
    [pixelFormat |-> pixelFormat, size |-> [width |-> width, height |-> height],
     bufferCount |-> count]

\* std::max(lo, std::min(hi, v))
clamp(lo, hi, v) == IF v > hi THEN hi ELSE IF v < lo THEN lo ELSE v

\* validate that leaves the size as the application set it
validatedNoClamp(config, sensor) ==
    IF config = <<>>
    THEN [status |-> "Invalid", config |-> config]
    ELSE LET cfg == config[1]
             known == cfg.pixelFormat \in formats
         IN [status |-> IF Len(config) > 1 \/ ~known THEN "Adjusted" ELSE "Valid",
             config |-> <<[pixelFormat |-> IF known THEN cfg.pixelFormat ELSE "NV12",
                           size |-> cfg.size,
                           bufferCount |-> RKISP1_BUFFER_COUNT]>>]

\* RkISP1CameraConfiguration::validate on the configurations config: the status it
\* returns and the configurations it leaves; sensor is the size of sensorFormat_
validated(config, sensor) ==
    IF config = <<>>
    THEN [status |-> "Invalid", config |-> config]
    ELSE LET cfg == config[1]
             known == cfg.pixelFormat \in formats
             size == cfg.size
             suitable == IF size.width = 0 \/ size.height = 0
                         THEN [width |-> 1280,
                               height |-> (1280 * sensor.height) \div sensor.width]
                         ELSE size
             clamped == [width |-> clamp(32, 4416, suitable.width),
                         height |-> clamp(16, 3312, suitable.height)]
         IN [status |-> IF Len(config) > 1 \/ ~known \/ clamped # size
                        THEN "Adjusted" ELSE "Valid",
             config |-> <<[pixelFormat |-> IF known THEN cfg.pixelFormat ELSE "NV12",
                           size |-> clamped,
                           bufferCount |-> RKISP1_BUFFER_COUNT]>>]

\* CameraConfiguration::addConfiguration(cfg)
addConfiguration(cfg) ==
    /\ Len(config_) < MaxConfigs
    /\ config_' = Append(config_, cfg)
    /\ ev' = Event("addConfiguration", TRUE, NoTry, {}, <<>>)
    /\ UNCHANGED <<camState, paramBuffers_, statBuffers_, ipaBuffers_, frameInfo_,
                   frame_, activeCamera_, actions_, streaming, kernel, videoSeq,
                   ipaMsgs, pending_, queuedRequests_, completed, bufDone, nreq, gen,
                   starts, sessionBase, afterStop, jumped, hist, fault>>

\* the application calls validate; was: the configurations it was called on
validate(sensor) ==
    LET v == validated(config_, sensor)
    IN /\ config_' = v.config
       /\ ev' = Event("validate", v.status # "Invalid", NoTry, {}, <<>>)
                 @@ [status |-> v.status, was |-> config_]
       /\ UNCHANGED <<camState, paramBuffers_, statBuffers_, ipaBuffers_,
                      frameInfo_, frame_, activeCamera_, actions_, streaming, kernel,
                      videoSeq, ipaMsgs, pending_, queuedRequests_, completed,
                      bufDone, nreq, gen, starts, sessionBase, afterStop, jumped,
                      hist, fault>>

---------------------------------------------------------------------------
(* Specification *)

Init ==
    /\ camState = "Configured"
    /\ paramBuffers_ = <<>>
    /\ statBuffers_ = <<>>
    /\ ipaBuffers_ = <<>>
    /\ frameInfo_ = <<>>
    /\ frame_ = 0
    /\ activeCamera_ = FALSE
    /\ actions_ = <<>>
    /\ streaming = {}
    /\ kernel = NoKernel
    /\ videoSeq = 0
    /\ ipaMsgs = {}
    /\ pending_ = {}
    /\ queuedRequests_ = {}
    /\ completed = [r \in Requests |-> 0]
    /\ bufDone = [r \in Requests |-> 0]
    /\ nreq = 0
    /\ gen = 0
    /\ starts = 0
    /\ sessionBase = 0
    /\ afterStop = FALSE
    /\ jumped = FALSE
    /\ hist = [r \in Requests |-> {}]
    /\ fault = "none"
    /\ ev = NoEv
    /\ config_ = <<>>

Next ==
    \/ \E fail \in {"none", "video", "param", "stat"} : allocateBuffers(fail, bufferCount)
    \/ freeBuffers
    \/ \E fail \in {"none", "param", "stat", "video"} : start(fail)
    \/ stop({})
    \/ \E hasBuffer \in BOOLEAN, late \in BOOLEAN :
          /\ nreq < MaxRequests
          /\ Cardinality(inFlight) < MaxInFlight
          /\ queueRequest(hasBuffer, late)
    \/ timeout
    \/ \E skip \in 0 .. MaxSkip : videoReturn(skip)
    \/ paramReturn
    \/ statReturn
    \/ \E m \in ipaMsgs, late \in BOOLEAN : ipaDeliver(m, late)

Spec == Init /\ [][Next]_vars

\* the IPA transport hands over the replies of one kind in dispatch order
inOrder(m) == \A x \in ipaMsgs : x.op = m.op => m.frame <= x.frame

\* the pending action a belongs to one of the first MaxInFlight Requests
early(a) ==
    a.type = "QueueBuffers" =>
        findFrame(frameInfo_, a.frame) /\ frameInfo_[a.frame].request < MaxInFlight

\* One streaming session in which the application queues Requests, each with an
\* image buffer, until a pool is drained, faster than the frames are captured:
\* meanwhile the actions of the first MaxInFlight Requests become due
NextBurst ==
    \/ allocateBuffers("none", bufferCount)
    \/ start("none")
    \/ \E late \in BOOLEAN :
          /\ nreq <= poolSize
          /\ late => nreq < MaxInFlight
          /\ queueRequest(TRUE, late)
    \/ actions_ # <<>> /\ early(Head(actions_)) /\ timeout
    \/ \E skip \in 0 .. MaxSkip : videoReturn(skip)
    \/ paramReturn
    \/ statReturn
    \/ \E m \in ipaMsgs, late \in BOOLEAN : inOrder(m) /\ ipaDeliver(m, late)

SpecBurst == Init /\ [][NextBurst]_vars

\* the largest unsigned int
UIntMax == 2 ^ UIntBits - 1

\* values of the frame counter and of the capture sequence number at the start of
\* a session, after a sequence jump, and next to the wrap of unsigned int
SeqValues == {0, 7, UIntMax - 1, UIntMax}

\* A streaming session at a moment when every Request queued so far has completed:
\* full free queues, empty FrameTable, nothing in the kernel or on its way from the
\* IPA; the frame counter is at most the next capture sequence number
InitSeq ==
    /\ camState = "Running"
    /\ paramBuffers_ = freshQueue("param", 1, bufferCount)
    /\ statBuffers_ = freshQueue("stat", 1, bufferCount)
    /\ ipaBuffers_ = freshIds(bufferCount)
    /\ frameInfo_ = <<>>
    /\ frame_ \in SeqValues
    /\ videoSeq \in {s \in SeqValues : frame_ <= s}
    /\ activeCamera_ = TRUE
    /\ actions_ = <<>>
    /\ streaming = Devices
    /\ kernel = NoKernel
    /\ ipaMsgs = {}
    /\ pending_ = {}
    /\ queuedRequests_ = {}
    /\ completed = [r \in Requests |-> 0]
    /\ bufDone = [r \in Requests |-> 0]
    /\ nreq = 0
    /\ gen = 1
    /\ starts = 1
    /\ sessionBase = 0
    /\ afterStop = FALSE
    /\ jumped = FALSE
    /\ hist = [r \in Requests |-> {}]
    /\ fault = "none"
    /\ ev = NoEv
    /\ config_ = <<>>

\* the session goes on: Requests are queued and their buffers and replies come back
NextSeq ==
    \/ \E late \in BOOLEAN : nreq < MaxRequests /\ queueRequest(TRUE, late)
    \/ timeout
    \/ \E skip \in 0 .. MaxSkip : videoReturn(skip)
    \/ paramReturn
    \/ statReturn
    \/ \E m \in ipaMsgs, late \in BOOLEAN : ipaDeliver(m, late)

SpecSeq == InitSeq /\ [][NextSeq]_vars

\* As Next with at most MaxInFlight Requests, and with stream-offs and a
\* configuration of the IPA that may fail
NextStop ==
    \/ allocateBuffers("none", bufferCount)
    \/ freeBuffers
    \/ \E fail \in {"none", "param", "stat", "video", "ipa"} : start(fail)
    \/ \E fails \in SUBSET Devices : stop(fails)
    \/ \E hasBuffer \in BOOLEAN, late \in BOOLEAN :
          nreq < MaxInFlight /\ queueRequest(hasBuffer, late)
    \/ timeout
    \/ \E skip \in 0 .. MaxSkip : videoReturn(skip)
    \/ paramReturn
    \/ statReturn
    \/ \E m \in ipaMsgs, late \in BOOLEAN : ipaDeliver(m, late)

SpecStop == Init /\ [][NextStop]_vars

\* values of bufferCount: the smallest ones, the one validate sets, and the ones
\* that make pools of RKISP1_PARAM_BASE - 1 and RKISP1_PARAM_BASE buffers
Counts == {0, 1, bufferCount, RKISP1_PARAM_BASE - 2, RKISP1_PARAM_BASE - 1}

\* One allocation, for any of these values of bufferCount, and one streaming
\* session on it
NextIds ==
    \/ \E count \in Counts : allocateBuffers("none", count)
    \/ start("none")
    \/ \E late \in BOOLEAN : nreq < MaxInFlight /\ queueRequest(TRUE, late)
    \/ timeout
    \/ \E skip \in 0 .. MaxSkip : videoReturn(skip)
    \/ paramReturn
    \/ statReturn
    \/ \E m \in ipaMsgs, late \in BOOLEAN : ipaDeliver(m, late)

SpecIds == Init /\ [][NextIds]_vars

\* A first session with one Request, stopped while the Request is in flight, and a
\* second session in which the application queues Requests until a pool is
\* drained; only the actions of the first MaxInFlight Requests become due, and
\* replies of the IPA from the first session may still arrive in the second
NextReuse ==
    \/ allocateBuffers("none", bufferCount)
    \/ start("none")
    \/ stop({})
    \/ /\ nreq <= poolSize
       /\ starts = 1 => nreq = 0
       /\ queueRequest(TRUE, FALSE)
    \/ actions_ # <<>> /\ early(Head(actions_)) /\ timeout
    \/ videoReturn(0)
    \/ paramReturn
    \/ statReturn
    \/ \E m \in ipaMsgs : inOrder(m) /\ ipaDeliver(m, FALSE)

SpecReuse == Init /\ [][NextReuse]_vars

\* pixel formats an application asks for: the accepted ones and two others
PixelFormats == formats \cup {"RGB24", "MJPEG"}

\* sizes an application asks for: unset, below, at, within, at and above the bounds
Sizes ==
    {<<0, 0>>, <<0, 480>>, <<31, 15>>, <<32, 16>>, <<640, 480>>, <<4416, 3312>>,
     <<4417, 3313>>, <<5000, 8>>}

\* the stream configurations an application adds
Entries ==
    {StreamConfiguration(f, s[1], s[2], 1) : f \in PixelFormats, s \in Sizes}

\* sizes of the sensor format
SensorSizes == {[width |-> 2592, height |-> 1944], [width |-> 1920, height |-> 1080]}

\* The application builds a configuration and validates it, any number of times
NextValidate ==
    \/ \E cfg \in Entries : addConfiguration(cfg)
    \/ \E sensor \in SensorSizes : validate(sensor)

SpecValidate == Init /\ [][NextValidate]_vars


---------------------------------------------------------------------------
(* Properties *)

Flags == {"paramFilled", "paramDequeued", "metadataProcessed"}

\* the parameters and statistics buffers of the current allocation
PoolBuffers(role) == {Buffer(role, gen, i) : i \in 0 .. bufferCount}

FreeQueue(role) == IF role = "param" THEN paramBuffers_ ELSE statBuffers_

\* the FrameTable keys whose FrameInfo holds buffer b
Holders(b) ==
    {k \in DOMAIN frameInfo_ :
        frameInfo_[k].paramBuffer = b \/ frameInfo_[k].statBuffer = b}

\* number of positions of the sequence q that hold b
Count(q, b) == Cardinality({i \in 1 .. Len(q) : q[i] = b})

\* C1: while the pools are allocated, for each role the free queue and the live
\* FrameInfos together account for the whole pool of bufferCount + 1 buffers
C1_PoolConservation ==
    camState # "Configured" =>
        /\ Len(paramBuffers_) + Cardinality(DOMAIN frameInfo_) = poolSize
        /\ Len(statBuffers_) + Cardinality(DOMAIN frameInfo_) = poolSize

\* C2: completeRequest is invoked at most once for a Request, and an attempt on a
\* Request that was completed before finds no FrameInfo and completes nothing
C2_CompletedAtMostOnce ==
    /\ \A r \in Requests : completed[r] <= 1
    /\ (ev.try.called /\ ev.try.hadInfo) =>
           completed[ev.try.request] = (IF ev.try.done THEN 1 ELSE 0)

\* C2 witness: a Request was completed by the last of several attempts
C2_Witness ==
    /\ ev.try.called /\ ev.try.done
    /\ completed[ev.try.request] = 1
    /\ {"paramRet", "videoRet", "meta"} \subseteq hist[ev.try.request]

\* C3: tryCompleteRequest completes the Request exactly when it has a FrameInfo,
\* no pending buffers, metadataProcessed and paramDequeued; it then destroys the
\* FrameInfo and returns its two buffers to the free queues; otherwise it changes
\* nothing
C3_CompletionGate ==
    [][ev'.try.called =>
        LET t == ev'.try
            k == findRequest(frameInfo_, t.request)
        IN /\ t.done <=> (t.hadInfo /\ ~t.pend /\ t.meta /\ t.pdeq)
           /\ t.done =>
                /\ completed' = [completed EXCEPT ![t.request] = @ + 1]
                /\ DOMAIN frameInfo_' = (DOMAIN frameInfo_) \ {k}
                /\ findRequest(frameInfo_', t.request) = -1
                /\ paramBuffers_' = Append(paramBuffers_, frameInfo_[k].paramBuffer)
                /\ statBuffers_' = Append(statBuffers_, frameInfo_[k].statBuffer)
           /\ ~t.done =>
                /\ UNCHANGED <<paramBuffers_, statBuffers_, completed, queuedRequests_>>
                /\ DOMAIN frameInfo_' = DOMAIN frameInfo_
                /\ \A j \in DOMAIN frameInfo_ :
                      /\ frameInfo_'[j].request = frameInfo_[j].request
                      /\ frameInfo_'[j].paramBuffer = frameInfo_[j].paramBuffer
                      /\ frameInfo_'[j].statBuffer = frameInfo_[j].statBuffer
                      /\ frameInfo_'[j].paramFilled = frameInfo_[j].paramFilled
    ]_vars

\* C3 witness: an attempt that completed a Request
C3_Witness == ev.try.called /\ ev.try.done /\ ev.op = "paramReady"

\* C4: a queueRequest that fails changes nothing: no FrameInfo, free queues, frame
\* counter, IPA, timeline and kernel untouched, and the Request recorded nowhere
C4_FailedQueueNoEffect ==
    [][(ev'.op = "queueRequest" /\ ~ev'.ok) =>
        UNCHANGED <<frameInfo_, paramBuffers_, statBuffers_, frame_, ipaMsgs,
                    actions_, kernel, queuedRequests_>>]_vars

C6_NextFrameAboveKeys == \A k \in DOMAIN frameInfo_ : k < frame_

\* C7: the flags of a FrameInfo are false at creation and never go back to false
C7_FlagsMonotone ==
    [][\A k \in DOMAIN frameInfo_' :
        IF k \in DOMAIN frameInfo_ /\ frameInfo_[k].request = frameInfo_'[k].request
        THEN \A f \in Flags : frameInfo_[k][f] => frameInfo_'[k][f]
        ELSE \A f \in Flags : ~frameInfo_'[k][f]
    ]_vars

\* C7 witness: a FrameInfo whose three flags have all become true
C7_Witness ==
    \E k \in DOMAIN frameInfo_ : \A f \in Flags : frameInfo_[k][f]

\* C8: between the return of stop and the next start no timeline action runs
C8_NoActionAfterStop == ~(afterStop /\ ev.ran # <<>>)

\* C9: every buffer of the two pools is in exactly one place: its free queue, the
\* kernel, or a live FrameInfo outside the kernel
C9_OnePlace ==
    camState # "Configured" =>
        \A role \in {"param", "stat"} : \A b \in PoolBuffers(role) :
            LET free == Count(FreeQueue(role), b)
                kern == Count(kernel[role], b)
                held == IF kern = 0 THEN Cardinality(Holders(b)) ELSE 0
            IN free + kern + held = 1

\* the run so far is the happy path of Request 0: queued in this session, the only
\* Request, parameters filled in time, the image back with sequence 0, the other
\* two buffers back and METADATA received
HappyEnd ==
    /\ camState = "Running" /\ fault = "none"
    /\ nreq = 1 /\ sessionBase = 0
    /\ {"paramQ", "paramRet", "statRet", "videoRet", "meta"} \subseteq hist[0]
    /\ videoSeq = 1

\* C10: the happy path ends with one completeBuffer, one completeRequest, an empty
\* FrameTable, full free queues and the frame counter at 1
C10_HappyPath ==
    HappyEnd =>
        /\ bufDone[0] = 1
        /\ completed[0] = 1
        /\ DOMAIN frameInfo_ = {}
        /\ Len(paramBuffers_) = poolSize
        /\ Len(statBuffers_) = poolSize
        /\ frame_ = 1

\* C10 witness: the happy path ended, METADATA having come last
C10_Witness == HappyEnd /\ completed[0] = 1 /\ ev.op = "METADATA"

\* the QueueBuffers action of Request r fired while paramFilled was false
lateParams(h, r) == "fired" \in h[r] /\ "paramQ" \notin h[r]

\* the QueueBuffers actions that ran in the step to the state with event e
firedActions(e) ==
    {e.ran[i] : i \in {j \in 1 .. Len(e.ran) : e.ran[j].type = "QueueBuffers"}}

returned(h, r) == {"paramRet", "statRet", "videoRet"} \subseteq h[r]

\* C12: in one streaming session, with r0 queued before r1 and the buffers of both
\* back, METADATA for r1 arriving first completes r1 while r0 stays uncompleted,
\* and METADATA for r0 arriving afterwards completes r0
C12_CompletionOrder ==
    [][(ev'.op = "METADATA" /\ ev'.try.called /\ starts = 1 /\ ~afterStop) =>
          \A r0, r1 \in Requests :
              (r0 < r1 /\ returned(hist, r0) /\ returned(hist, r1)) =>
                  /\ (ev'.try.request = r1 /\ "meta" \notin hist[r0]) =>
                         /\ completed[r1] = 0 /\ completed'[r1] = 1
                         /\ completed'[r0] = 0
                  /\ (ev'.try.request = r0 /\ "meta" \in hist[r1]) =>
                         /\ completed[r1] = 1
                         /\ completed[r0] = 0 /\ completed'[r0] = 1
    ]_vars

\* C12 witness: METADATA for the first Request has just completed it, the second
\* Request being completed already
C12_Witness ==
    /\ ev.op = "METADATA" /\ ev.try.done /\ ev.try.request = 0
    /\ starts = 1 /\ ~afterStop
    /\ returned(hist, 0) /\ returned(hist, 1)
    /\ completed[0] = 1 /\ completed[1] = 1

Max(a, b) == IF a >= b THEN a ELSE b

\* the sequence number of the image buffer that came back in the step to the
\* state whose next capture sequence number is next
returnedSequence(next) == UInt(next + UIntMax)

\* C13: bufferReady for an image buffer with sequence number s leaves the frame
\* counter at max(old counter, s + 1), above s and not below its old value, and
\* leaves the FrameInfos that remain under their keys
C13_SequenceJump ==
    [][(ev'.op = "bufferReady" /\ ev'.ok) =>
          LET s == returnedSequence(videoSeq')
          IN /\ frame_' = Max(frame_, s + 1)
             /\ frame_' > s
             /\ frame_' >= frame_
             /\ \A k \in DOMAIN frameInfo_' :
                    /\ k \in DOMAIN frameInfo_
                    /\ frameInfo_'[k].frame = k
                    /\ frameInfo_'[k].request = frameInfo_[k].request
    ]_vars

\* the devices of the calls named what among the calls cs, in call order
devicesCalled(cs, what) ==
    LET sel == SelectSeq(cs, LAMBDA c : c.dev \in Devices /\ c.arg = what)
    IN [i \in 1 .. Len(sel) |-> sel[i].dev]

\* C14: start streams on parameters, statistics, image in that order; when one of
\* them fails the devices already on are streamed off, the IPA is not configured
\* and activeCamera is not set; activeCamera is set only while the camera runs
C14_StartUnwinds ==
    [][/\ ev'.op = "start" =>
              LET on == devicesCalled(ev'.calls, "streamOn")
                  off == devicesCalled(ev'.calls, "streamOff")
              IN /\ on = SubSeq(<<"param", "stat", "video">>, 1, Len(on))
                 /\ ~ev'.ok =>
                        /\ Range(off) = Range(SubSeq(on, 1, Len(on) - 1))
                        /\ streaming' = {}
                        /\ Call("ipa", "configure") \notin Range(ev'.calls)
                        /\ ipaMsgs' = ipaMsgs
                        /\ ~activeCamera_'
       /\ activeCamera_' => camState' = "Running"
    ]_vars

\* C15: stop streams off image, statistics, parameters in that order, resets the
\* timeline and clears activeCamera whatever stream-off fails, and leaves the
\* FrameTable, the free queues and the frame counter as they were
C15_StopSteps ==
    [][ev'.op = "stop" =>
          /\ ev'.calls = <<Call("video", "streamOff"), Call("stat", "streamOff"),
                           Call("param", "streamOff"), Call("timeline", "reset")>>
          /\ actions_' = <<>>
          /\ ~activeCamera_'
          /\ UNCHANGED <<frameInfo_, paramBuffers_, statBuffers_, frame_>>
    ]_vars

\* C15 witness: stop has returned with a stream-off failed, a FrameInfo still
\* live and an action dropped from the timeline
C15_Witness ==
    /\ ev.op = "stop" /\ streaming # {}
    /\ DOMAIN frameInfo_ # {}
    /\ "fired" \notin hist[0] /\ nreq = 1 /\ 0 \in DOMAIN frameInfo_

\* the buffer and IPA callbacks
Callbacks ==
    {"bufferReady", "paramReady", "statReady", "V4L2_SET", "PARAM_FILLED", "METADATA"}

\* C16: once stop has abandoned the FrameInfo of a Request, the Request is never
\* completed, no error state is reached, also after a new start, and while the
\* camera is stopped no callback changes the state of the scheduler
C16_StopMidFlight ==
    [][\A k \in DOMAIN frameInfo_ :
          LET r == frameInfo_[k].request
          IN (afterStop \/ r < sessionBase) =>
                /\ completed'[r] = completed[r]
                /\ fault' = "none"
                /\ (afterStop /\ ev'.op \in Callbacks) =>
                       UNCHANGED <<frameInfo_, paramBuffers_, statBuffers_, frame_,
                                   actions_, completed, bufDone>>
    ]_vars

\* C17: after freeBuffers both free queues and the list of buffers mapped in the
\* IPA are empty and no parameters or statistics buffer is held by a FrameInfo or
\* by the kernel
C17_FreeRestores ==
    ev.op = "freeBuffers" =>
        /\ paramBuffers_ = <<>>
        /\ statBuffers_ = <<>>
        /\ ipaBuffers_ = <<>>
        /\ \A role \in {"param", "stat"} : \A b \in PoolBuffers(role) :
               Holders(b) = {} /\ Count(kernel[role], b) = 0

\* C18: no handler runs into an unset activeCamera
C18_ActiveCameraSet == ~(fault \in {"assert", "nullptr"} /\ ~activeCamera_)

\* C20: QUEUE_REQUEST with the frame number and PARAM_BASE | slot of a frame is
\* sent to the IPA before the frame's QueueBuffers action fires: in an earlier
\* step, or earlier in the queueRequest call that runs the action at once
C20_QueueRequestFirst ==
    [][/\ (ev'.op = "queueRequest" /\ ev'.ok) =>
              LET info == frameInfo_'[frame_]
                  op == [op |-> "QUEUE_REQUEST", frame |-> frame_,
                         id |-> RKISP1_PARAM_BASE + info.paramBuffer.index]
                  told == {i \in 1 .. Len(ev'.calls) : ev'.calls[i] = Call("ipa", op)}
              IN /\ ev'.sent = {op}
                 /\ told # {}
                 /\ \A j \in 1 .. Len(ev'.calls) :
                        ev'.calls[j].dev \in Devices => \E i \in told : i < j
       /\ \A a \in firedActions(ev') :
              fault' = "none" =>
                  \/ "ipaQ" \in hist[frameInfo_'[a.frame].request]
                  \/ ev'.op = "queueRequest" /\ ev'.ok /\ a.frame = frame_
    ]_vars

\* C20 witness: queueRequest has told the IPA and then run the action at once
C20_Witness ==
    /\ ev.op = "queueRequest" /\ firedActions(ev) # {}
    /\ ev.calls[1].dev = "ipa"
    /\ ev.calls[Len(ev.calls)].dev = "video"

\* C21: metadataProcessed is set, and the METADATA reply recorded for the Request,
\* only after SIGNAL_STAT_BUFFER was sent for the statistics buffer of that frame's
\* FrameInfo
C21_MetadataAfterStat ==
    /\ \A k \in DOMAIN frameInfo_ :
           frameInfo_[k].metadataProcessed => "statRet" \in hist[frameInfo_[k].request]
    /\ \A r \in Requests : "meta" \in hist[r] => "statRet" \in hist[r]

\* the events that look a FrameInfo up by frame number or by buffer
Lookups == {"paramReady", "statReady", "PARAM_FILLED", "METADATA"}

\* C22: an event that refers to a frame, buffer or Request without a live FrameInfo
\* is dropped: no fault, and the FrameTable, the free queues, the frame counter,
\* the timeline and the completions stay as they are
C22_UnknownDropped ==
    [][/\ (/\ ev'.op \in Lookups
           /\ ~ev'.ok
           /\ ev'.op \in {"paramReady", "statReady"} => activeCamera_)
          => /\ fault' = fault
             /\ UNCHANGED <<frameInfo_, paramBuffers_, statBuffers_, frame_,
                            actions_, completed, bufDone, pending_>>
       /\ (ev'.try.called /\ ~ev'.try.hadInfo)
          => /\ fault' = fault
             /\ UNCHANGED <<frameInfo_, paramBuffers_, statBuffers_, completed>>]_vars

\* C23: statReady(buffer) for a buffer held by a live FrameInfo sends exactly one
\* operation, SIGNAL_STAT_BUFFER with that FrameInfo's frame and the id
\* RKISP1_STAT_BASE + slot, and leaves the flags, the FrameTable, the free queues,
\* the frame counter, the timeline and the completions as they are
C23_StatReady ==
    [][(ev'.op = "statReady" /\ ev'.ok)
       => LET buffer == Head(kernel["stat"])
              k == findBuffer(frameInfo_, buffer)
          IN /\ k # -1
             /\ ev'.sent = {[op |-> "SIGNAL_STAT_BUFFER",
                             frame |-> frameInfo_[k].frame,
                             id |-> RKISP1_STAT_BASE + buffer.index]}
             /\ ~ev'.try.called
             /\ ev'.ran = <<>>
             /\ fault' = fault
             /\ UNCHANGED <<frameInfo_, paramBuffers_, statBuffers_, frame_,
                            actions_, completed, bufDone, pending_,
                            queuedRequests_, activeCamera_>>]_vars

\* a statistics buffer came back for a live FrameInfo and was signalled to the IPA
C23_Witness ==
    /\ ev.op = "statReady"
    /\ ev.ok
    /\ \E op \in ev.sent : findFrame(frameInfo_, op.frame)

\* s in reverse order
Reverse(s) == [i \in 1 .. Len(s) |-> s[Len(s) + 1 - i]]

\* the order in which allocateBuffers acquires the devices' buffers and fills the
\* free queues
Acquired == devicesCalled(allocateCalls("none"), "exportBuffers")
Filled == devicesCalled(allocateCalls("none"), "push")

\* C24: allocateBuffers acquires image, parameters, statistics and fills the
\* parameter queue before the statistics queue; freeBuffers releases in the reverse
\* order, statistics, parameters, image, both the free queues and the devices'
\* buffers
C24_ReverseRelease ==
    /\ (ev.op = "allocateBuffers" /\ ev.ok)
       => /\ devicesCalled(ev.calls, "exportBuffers") = <<"video", "param", "stat">>
          /\ devicesCalled(ev.calls, "push") = <<"param", "stat">>
    /\ ev.op = "freeBuffers"
       => /\ devicesCalled(ev.calls, "delete") = Reverse(Filled)
          /\ devicesCalled(ev.calls, "releaseBuffers") = Reverse(Acquired)

\* the buffers of a pool that are in its free queue or held by a FrameInfo
PoolHeld(role) ==
    Range(FreeQueue(role))
    \cup {IF role = "param" THEN frameInfo_[k].paramBuffer ELSE frameInfo_[k].statBuffer
          : k \in DOMAIN frameInfo_}

\* C25: for a pool of n = bufferCount + 1 buffers, n up to 0x100, allocateBuffers
\* registers n parameters ids and n statistics ids; the i-th id of either kind
\* decodes (upper byte, low byte) to its role and to the slot i - 1, the ids are
\* pairwise distinct, each pool has one buffer per slot, and every id sent in
\* QUEUE_REQUEST or SIGNAL_STAT_BUFFER is one of the registered ids
C25_BufferIds ==
    gen > 0 =>
        LET n == Len(ipaBuffers_) \div 2
        IN /\ Len(ipaBuffers_) = 2 * n
           /\ n \in 1 .. RKISP1_PARAM_BASE
           /\ \A i \in 1 .. n :
                 /\ ipaBuffers_[i] \div RKISP1_PARAM_BASE = 1
                 /\ ipaBuffers_[i] % RKISP1_PARAM_BASE = i - 1
                 /\ ipaBuffers_[n + i] \div RKISP1_PARAM_BASE = 2
                 /\ ipaBuffers_[n + i] % RKISP1_PARAM_BASE = i - 1
           /\ Cardinality(Range(ipaBuffers_)) = 2 * n
           /\ \A role \in {"param", "stat"} :
                 /\ {b.index : b \in PoolHeld(role)} = 0 .. (n - 1)
                 /\ Cardinality(PoolHeld(role)) = n
           /\ \A op \in ev.sent : op.id \in Range(ipaBuffers_)

\* a statistics buffer of a pool of 0x100 buffers was signalled to the IPA
C25_Witness ==
    /\ Len(ipaBuffers_) = 2 * RKISP1_PARAM_BASE
    /\ ev.op = "statReady"
    /\ ev.sent # {}

\* C26: when the configuration of the IPA fails in start, after the three devices
\* were streamed on, start streams all three off again and returns an error, and
\* activeCamera_ stays unset
C26_ConfigureFailure ==
    [][(ev'.op = "start" /\ Call("ipa", "configure: error") \in Range(ev'.calls))
       => /\ ~ev'.ok
          /\ ~activeCamera_'
          /\ streaming' = {}
          /\ Range(devicesCalled(ev'.calls, "streamOff")) = Devices]_vars

\* C27: validate on an empty configuration returns Invalid; otherwise it leaves
\* one stream configuration, with one of the eight pixel formats (the requested one
\* if it is one of them, NV12 if not), a width in 32 .. 4416, a height in
\* 16 .. 3312 and bufferCount 4, and returns Adjusted exactly when entries were
\* dropped, the format was replaced or the size was changed, Valid otherwise
C27_Validate ==
    ev.op = "validate" =>
        IF ev.was = <<>>
        THEN ev.status = "Invalid" /\ config_ = <<>>
        ELSE LET was == ev.was[1]
                 cfg == config_[1]
                 accepted == {"YUYV", "YVYU", "VYUY", "NV16", "NV61", "NV21",
                              "NV12", "GREY"}
             IN /\ Len(config_) = 1
                /\ cfg.pixelFormat \in accepted
                /\ cfg.pixelFormat = IF was.pixelFormat \in accepted
                                     THEN was.pixelFormat ELSE "NV12"
                /\ cfg.size.width \in 32 .. 4416
                /\ cfg.size.height \in 16 .. 3312
                /\ cfg.bufferCount = 4
                /\ ev.status = IF \/ Len(ev.was) > 1
                                  \/ cfg.pixelFormat # was.pixelFormat
                                  \/ cfg.size # was.size
                               THEN "Adjusted" ELSE "Valid"

\* validate dropped an entry and clamped a size that was above the bounds
C27_Witness ==
    /\ ev.op = "validate"
    /\ ev.status = "Adjusted"
    /\ Len(ev.was) = 2
    /\ ev.was[1].size.width > 4416
    /\ config_[1].size.width = 4416

\* C28: when a QueueBuffers action fires for frame f, a FrameInfo with key f is
\* present and is the one of the queueRequest that scheduled the action, whose
\* buffers were not queued by an action before; the "Frame not known" fatal path
\* is not taken
C28_FrameKnown ==
    [][/\ fault' # "fatal"
       /\ ev'.op = "timeout"
          => \A a \in firedActions(ev') :
                 /\ findFrame(frameInfo_, a.frame)
                 /\ "fired" \notin hist[frameInfo_[a.frame].request]]_vars

\* the slot indices of the buffers of a queue, in queue order
Slots(q) == [i \in 1 .. Len(q) |-> q[i].index]

\* C29: the two free queues hold the same sequence of slot indices, and every
\* live FrameInfo holds a parameters buffer and a statistics buffer of the same slot
C29_Lockstep ==
    /\ Slots(paramBuffers_) = Slots(statBuffers_)
    /\ \A k \in DOMAIN frameInfo_ :
           frameInfo_[k].paramBuffer.index = frameInfo_[k].statBuffer.index

\* a Request completed and its buffers went to the back of the queues, behind a
\* higher slot, while another frame is live
C29_Witness ==
    /\ frameInfo_ # <<>>
    /\ Len(paramBuffers_) > 1
    /\ paramBuffers_[Len(paramBuffers_)].index < Head(paramBuffers_).index

\* C30: every SIGNAL_STAT_BUFFER names a live frame whose QueueBuffers action has
\* enqueued the statistics buffer that came back and whose statistics buffer has
\* not come back before: a buffer in kernel custody is never reported under the
\* number of a newer frame it was handed to in the meantime
C30_StatOfItsFrame ==
    [][(ev'.op = "statReady" /\ ev'.ok)
       => \A op \in ev'.sent :
              /\ findFrame(frameInfo_, op.frame)
              /\ frameInfo_[op.frame].statBuffer = Head(kernel["stat"])
              /\ "fired" \in hist[frameInfo_[op.frame].request]
              /\ "statRet" \notin hist[frameInfo_[op.frame].request]]_vars

===========================================================================
